---- MODULE Spec2Model ----
(***************************************************************************)
(* Floyd-Steinberg dithering of src/main.ts.                               *)
(*                                                                         *)
(* Numbers.  The working buffer is a Uint8ClampedArray: its samples are    *)
(* integers 0..255.  Every other number of the algorithm is a sample plus  *)
(* an integer error times k/16, so it is a multiple of 1/16 and the        *)
(* floating-point arithmetic of the source is exact on it.  Such numbers   *)
(* are held here as integers counting sixteenths (Q = 16).                 *)
(***************************************************************************)
EXTENDS Integers, Sequences, FiniteSets

VARIABLES
    width,      \* imageData.width
    height,     \* imageData.height
    heap,       \* the sample buffers: "data" (the caller's) and "result"
    pc,         \* position in floydSteinbergDithering
    x, y,       \* the loop counters
    oldColor,   \* colour read at (x,y) before the write
    newColor,   \* colour returned by the matcher
    error,      \* oldColor - newColor
    call,       \* which of the four distributeError calls comes next
    returned,   \* the ImageData handed back
    data0,      \* history: the caller's samples at the call
    visits,     \* history: the pixels visited, in order
    quantized,  \* history: the colour written at each visit
    applied,    \* history: sum of the sample changes of this pixel's diffusion
    lastWrite,  \* history: the last distributeError call
    r, g, b,    \* matcher harness: the colour asked for (sixteenths)
    closest     \* matcher harness: the answer

vars == << width, height, heap, pc, x, y, oldColor, newColor, error, call,
           returned, data0, visits, quantized, applied, lastWrite,
           r, g, b, closest >>

ditherVars == << width, height, heap, pc, x, y, oldColor, newColor, error,
                 call, returned, data0, visits, quantized, applied, lastWrite >>

matchVars == << r, g, b, closest >>

-----------------------------------------------------------------------------
(* Bounds of the model *)

MaxW == 3
MaxH == 2
MaxFree == 4
MaxExtra == 1

(* Denominator of the diffusion factors 7/16, 3/16, 5/16, 1/16 *)
Q == 16

(* let minDistance = Infinity: above every distance the model computes *)
Infinity == 2147483647

-----------------------------------------------------------------------------
(* The palette *)

PALETTE ==
    << <<0, 0, 0>>,
       <<255, 255, 255>>,
       <<255, 0, 0>>,
       <<0, 255, 0>>,
       <<0, 0, 255>>,
       <<255, 255, 0>>,
       <<0, 255, 255>>,
       <<255, 0, 255>> >>

PaletteSet == { PALETTE[i] : i \in 1..Len(PALETTE) }

-----------------------------------------------------------------------------
(* findClosestPaletteColor.  r, g, b are in sixteenths.  distance is the   *)
(* squared distance in units of 1/256: Math.sqrt is strictly increasing    *)
(* and maps the distinct squared distances that occur here (multiples of   *)
(* 1/256 below 2^23) to distinct doubles, so `distance < minDistance`      *)
(* decides the same on the squares.                                        *)

distance(cr, cg, cb, p) ==
    (cr - Q * p[1]) * (cr - Q * p[1])
  + (cg - Q * p[2]) * (cg - Q * p[2])
  + (cb - Q * p[3]) * (cb - Q * p[3])

closerOrEqual(d, minDistance) == d <= minDistance

closer(d, minDistance) == d < minDistance

RECURSIVE paletteLoop(_, _, _, _, _, _)
paletteLoop(cr, cg, cb, i, minDistance, closestColor) ==
    IF i > Len(PALETTE) THEN closestColor
    ELSE LET d == distance(cr, cg, cb, PALETTE[i])
         IN  IF closer(d, minDistance)
             THEN paletteLoop(cr, cg, cb, i + 1, d, PALETTE[i])
             ELSE paletteLoop(cr, cg, cb, i + 1, minDistance, closestColor)

findClosestPaletteColor(cr, cg, cb) ==
    paletteLoop(cr, cg, cb, 1, Infinity, <<0, 0, 0>>)

-----------------------------------------------------------------------------
(* Uint8ClampedArray *)

(* The conversion a store into a Uint8ClampedArray applies (ToUint8Clamp): *)
(* clamp to [0,255], then round to nearest, ties to even.  n in sixteenths.*)
ToUint8Clamp(n) ==
    IF n <= 0 THEN 0
    ELSE IF n >= 255 * Q THEN 255
    ELSE LET f == n \div Q
             rem == n % Q
         IN  IF 2 * rem < Q THEN f
             ELSE IF 2 * rem > Q THEN f + 1
             ELSE IF f % 2 = 0 THEN f ELSE f + 1

(* result[i], i counted from 0 *)
Load(buf, i) == buf[i + 1]

(* result[i] = n, n in sixteenths; a store past the end is ignored *)
Store(buf, i, n) ==
    IF i >= 0 /\ i < Len(buf) THEN [buf EXCEPT ![i + 1] = ToUint8Clamp(n)]
    ELSE buf

(* const result = new Uint8ClampedArray(data): the buffer the scan works on *)
resultAliasesData == "data"

resultBuf == "result"

result == heap[resultBuf]

getPixelIndex(px, py) == (py * width + px) * 4

-----------------------------------------------------------------------------
(* floydSteinbergDithering *)

(* result[index] = newColor[0]; result[index + 1] = ...; result[index + 2] = ... *)
writeColorAndAlpha(buf, index, c) ==
    Store(Store(Store(Store(buf, index, Q * c[1]), index + 1, Q * c[2]),
                index + 2, Q * c[3]), index + 3, Q * 255)

writeColorNoBlue(buf, index, c) ==
    Store(Store(buf, index, Q * c[1]), index + 1, Q * c[2])

writeColor(buf, index, c) ==
    Store(Store(Store(buf, index, Q * c[1]), index + 1, Q * c[2]),
          index + 2, Q * c[3])

(* the four calls distributeError(dx, dy, factor), factor = k/16 as <<dx, dy, k>> *)
callsSwapped == << <<1, 0, 5>>, <<-1, 1, 3>>, <<0, 1, 7>>, <<1, 1, 1>> >>

calls == << <<1, 0, 7>>, <<-1, 1, 3>>, <<0, 1, 5>>, <<1, 1, 1>> >>

(* if (nx >= 0 && nx < width && ny >= 0 && ny < height) *)
inBoundsNoLeftCheck(nx, ny) == nx < width /\ ny >= 0 /\ ny < height

inBounds(nx, ny) == nx >= 0 /\ nx < width /\ ny >= 0 /\ ny < height

(* result[nIndex] += error[0] * factor, and the same for the next two samples *)
addError(buf, nIndex, k) ==
    Store(Store(Store(buf,
        nIndex,     Q * Load(buf, nIndex)     + error[1] * k),
        nIndex + 1, Q * Load(buf, nIndex + 1) + error[2] * k),
        nIndex + 2, Q * Load(buf, nIndex + 2) + error[3] * k)

rgb(buf, index) == << Load(buf, index), Load(buf, index + 1), Load(buf, index + 2) >>

(* new ImageData(result, width, height) *)
ImageData(d, w, h) == [data |-> d, width |-> w, height |-> h]

NoImage == [data |-> << >>, width |-> 0, height |-> 0]

NoWrite == [wrote |-> FALSE, nx |-> 0, ny |-> 0, k |-> 0,
            before |-> <<0, 0, 0>>, after |-> <<0, 0, 0>>]

(* const result = new Uint8ClampedArray(data) *)
Copy ==
    /\ pc = "call"
    /\ heap' = [heap EXCEPT ![resultBuf] = heap["data"]]
    /\ pc' = "loop"
    /\ UNCHANGED << width, height, x, y, oldColor, newColor, error, call,
                    returned, data0, visits, quantized, applied, lastWrite >>

(* the loop body up to the error vector *)
Visit ==
    /\ pc = "loop"
    /\ y < height
    /\ x < width
    /\ LET index == getPixelIndex(x, y)
           old == rgb(result, index)
           new == findClosestPaletteColor(Q * old[1], Q * old[2], Q * old[3])
       IN  /\ oldColor' = old
           /\ newColor' = new
           /\ heap' = [heap EXCEPT ![resultBuf] = writeColor(result, index, new)]
           /\ error' = << old[1] - new[1], old[2] - new[2], old[3] - new[3] >>
           /\ quantized' = Append(quantized, new)
    /\ visits' = Append(visits, <<x, y>>)
    /\ applied' = <<0, 0, 0>>
    /\ lastWrite' = NoWrite
    /\ call' = 1
    /\ pc' = "diffuse"
    /\ UNCHANGED << width, height, x, y, returned, data0 >>

(* one call of distributeError; after the fourth, x++ *)
Distribute ==
    /\ pc = "diffuse"
    /\ LET dx == calls[call][1]
           dy == calls[call][2]
           k  == calls[call][3]
           nx == x + dx
           ny == y + dy
           nIndex == getPixelIndex(nx, ny)
       IN  IF inBounds(nx, ny)
           THEN LET buf == addError(result, nIndex, k)
                IN  /\ heap' = [heap EXCEPT ![resultBuf] = buf]
                    /\ lastWrite' = [wrote |-> TRUE, nx |-> nx, ny |-> ny, k |-> k,
                                     before |-> rgb(result, nIndex),
                                     after |-> rgb(buf, nIndex)]
                    /\ applied' = [c \in 1..3 |->
                           applied[c] + rgb(buf, nIndex)[c] - rgb(result, nIndex)[c]]
           ELSE /\ lastWrite' = [NoWrite EXCEPT !.nx = nx, !.ny = ny, !.k = k]
                /\ UNCHANGED << heap, applied >>
    /\ IF call < Len(calls)
       THEN /\ call' = call + 1
            /\ UNCHANGED << pc, x >>
       ELSE /\ call' = 1
            /\ pc' = "loop"
            /\ x' = x + 1
    /\ UNCHANGED << width, height, y, oldColor, newColor, error, returned,
                    data0, visits, quantized >>

(* the inner loop ends: y++, x = 0 *)
NextRowNoReset ==
    /\ pc = "loop"
    /\ y < height
    /\ ~(x < width)
    /\ y' = y + 1
    /\ UNCHANGED << width, height, heap, pc, x, oldColor, newColor, error, call,
                    returned, data0, visits, quantized, applied, lastWrite >>

NextRow ==
    /\ pc = "loop"
    /\ y < height
    /\ ~(x < width)
    /\ y' = y + 1
    /\ x' = 0
    /\ UNCHANGED << width, height, heap, pc, oldColor, newColor, error, call,
                    returned, data0, visits, quantized, applied, lastWrite >>

(* the outer loop ends: return new ImageData(result, width, height) *)
Return ==
    /\ pc = "loop"
    /\ ~(y < height)
    /\ returned' = ImageData(result, width, height)
    /\ pc' = "done"
    /\ UNCHANGED << width, height, heap, x, y, oldColor, newColor, error, call,
                    data0, visits, quantized, applied, lastWrite >>

-----------------------------------------------------------------------------
(* Inputs *)

(* RGBA pixels the input images are made of *)
InputPixels ==
    << <<128, 128, 128, 255>>,
       <<200, 100, 10, 37>>,
       <<10, 250, 100, 128>>,
       <<8, 247, 120, 0>> >>

(* an image of n pixels: pixel i is InputPixels[choice[i mod MaxFree]] *)
image(n, choice) ==
    [j \in 1..(4 * n) |->
        InputPixels[choice[(((j - 1) \div 4) % MaxFree) + 1]][((j - 1) % 4) + 1]]

Choices == [1..MaxFree -> 1..Len(InputPixels)]

(* the choices that run through InputPixels in order, from each start *)
Rotations ==
    { [i \in 1..MaxFree |-> ((i + s) % Len(InputPixels)) + 1] :
          s \in 1..Len(InputPixels) }

(* colours the matcher is asked for on its own, in sixteenths *)
MatchInputs == { -20 * Q, 0, 100 * Q, 2040, 128 * Q, 255 * Q, 300 * Q }

InitCall(choices, extras) ==
    /\ width \in 0..MaxW
    /\ height \in 0..MaxH
    /\ \E choice \in choices, extra \in extras :
           heap = [data |-> image(width * height + extra, choice), result |-> << >>]
    /\ data0 = heap["data"]
    /\ pc = "call"
    /\ x = 0
    /\ y = 0
    /\ oldColor = <<0, 0, 0>>
    /\ newColor = <<0, 0, 0>>
    /\ error = <<0, 0, 0>>
    /\ call = 1
    /\ returned = NoImage
    /\ visits = << >>
    /\ quantized = << >>
    /\ applied = <<0, 0, 0>>
    /\ lastWrite = NoWrite

MatchIdle ==
    /\ r = 0
    /\ g = 0
    /\ b = 0
    /\ closest = << >>

(* the call with a buffer of width * height * 4 samples *)
Init == InitCall(Choices, {0}) /\ MatchIdle

(* the call with any buffer, trailing samples included *)
InitAny == InitCall(Choices, 0..MaxExtra) /\ MatchIdle

(* the call with the images of Rotations *)
InitRotations == InitCall(Rotations, {0}) /\ MatchIdle

Next ==
    \/ Copy /\ UNCHANGED matchVars
    \/ Visit /\ UNCHANGED matchVars
    \/ Distribute /\ UNCHANGED matchVars
    \/ NextRow /\ UNCHANGED matchVars
    \/ Return /\ UNCHANGED matchVars

Spec == Init /\ [][Next]_vars

SpecAny == InitAny /\ [][Next]_vars

(* the scan is one synchronous call: it runs to its end *)
FairSpec == InitRotations /\ [][Next]_vars /\ WF_vars(Next)

(* findClosestPaletteColor on its own *)
InitMatch ==
    /\ r \in MatchInputs
    /\ g \in MatchInputs
    /\ b \in MatchInputs
    /\ closest = << >>
    /\ width = 0
    /\ height = 0
    /\ heap = [data |-> << >>, result |-> << >>]
    /\ data0 = << >>
    /\ pc = "match"
    /\ x = 0
    /\ y = 0
    /\ oldColor = <<0, 0, 0>>
    /\ newColor = <<0, 0, 0>>
    /\ error = <<0, 0, 0>>
    /\ call = 1
    /\ returned = NoImage
    /\ visits = << >>
    /\ quantized = << >>
    /\ applied = <<0, 0, 0>>
    /\ lastWrite = NoWrite

Match ==
    /\ pc = "match"
    /\ closest = << >>
    /\ closest' = findClosestPaletteColor(r, g, b)
    /\ UNCHANGED << r, g, b >>
    /\ UNCHANGED ditherVars

NextMatch == Match

SpecMatch == InitMatch /\ [][NextMatch]_vars

-----------------------------------------------------------------------------
(* Properties *)

(* number of pixels the scan has quantized so far, from the loop counters *)
visitedPixels ==
    IF pc = "call" THEN 0
    ELSE IF pc = "diffuse" THEN y * width + x + 1
    ELSE y * width + x

inGrid(px, py) == 0 <= px /\ px < width /\ 0 <= py /\ py < height

pixelNumber(px, py) == py * width + px

lastVisit == visits[Len(visits)]

(* C1: every pixel before the current one in row-major order holds a palette
   entry, and so does every pixel of the returned buffer. *)
C1_PaletteMembership ==
    /\ \A p \in 0..(visitedPixels - 1) : rgb(result, 4 * p) \in PaletteSet
    /\ pc = "done" =>
          \A p \in 0..(width * height - 1) : rgb(returned.data, 4 * p) \in PaletteSet

C1_Witness ==
    /\ pc = "done"
    /\ width = 3
    /\ height = 2
    /\ \E p \in 0..5 : rgb(returned.data, 4 * p) # rgb(data0, 4 * p)

(* C2: the matcher returns a palette entry at minimal distance from (r,g,b),
   and among the entries at that minimal distance the first in palette order. *)
C2_ClosestFirst ==
    closest # << >> =>
        \E i \in 1..Len(PALETTE) :
            /\ closest = PALETTE[i]
            /\ \A j \in 1..Len(PALETTE) :
                   distance(r, g, b, PALETTE[i]) <= distance(r, g, b, PALETTE[j])
            /\ \A j \in 1..(i - 1) :
                   distance(r, g, b, PALETTE[j]) > distance(r, g, b, PALETTE[i])

C2_Witness ==
    /\ closest = PALETTE[1]
    /\ \E j \in 2..Len(PALETTE) :
           distance(r, g, b, PALETTE[j]) = distance(r, g, b, PALETTE[1])

(* C3: the alpha sample of every pixel of the working buffer, and of the
   returned buffer, equals the alpha sample of that pixel in the input. *)
C3_AlphaPassthrough ==
    /\ pc # "call" =>
          \A p \in 0..(width * height - 1) :
              Load(result, 4 * p + 3) = Load(data0, 4 * p + 3)
    /\ pc = "done" =>
          \A p \in 0..(width * height - 1) :
              Load(returned.data, 4 * p + 3) = Load(data0, 4 * p + 3)

C3_Witness ==
    /\ pc = "done"
    /\ width * height >= 2
    /\ \E p \in 0..(width * height - 1) :
           /\ Load(returned.data, 4 * p + 3) = 37
           /\ rgb(returned.data, 4 * p) # rgb(data0, 4 * p)

(* C4: a diffusion update stores neighbour + error * weight as it is: after
   the write the target's sample is exactly the sum, unrounded and unclamped. *)
C4_StoredUnclamped ==
    lastWrite.wrote =>
        \A c \in 1..3 :
            Q * lastWrite.after[c] = Q * lastWrite.before[c] + error[c] * lastWrite.k

(* sum of the factors (in sixteenths) of the targets of (px,py) inside the grid *)
weightInGrid(px, py) ==
      (IF inGrid(px + 1, py) THEN 7 ELSE 0)
    + (IF inGrid(px - 1, py + 1) THEN 3 ELSE 0)
    + (IF inGrid(px, py + 1) THEN 5 ELSE 0)
    + (IF inGrid(px + 1, py + 1) THEN 1 ELSE 0)

interior(px, py) ==
    /\ inGrid(px + 1, py)
    /\ inGrid(px - 1, py + 1)
    /\ inGrid(px, py + 1)
    /\ inGrid(px + 1, py + 1)

(* C5: when the diffusion of a pixel is complete, the sum of the changes made
   to its neighbours is, per channel, the error times the total weight of the
   targets inside the grid: the whole error for an interior pixel, less for
   an edge or corner pixel. *)
C5_ErrorConserved ==
    (pc = "loop" /\ visits # << >>) =>
        LET px == lastVisit[1]
            py == lastVisit[2]
        IN  /\ \A c \in 1..3 : Q * applied[c] = error[c] * weightInGrid(px, py)
            /\ interior(px, py) => applied = error
            /\ ~interior(px, py) => weightInGrid(px, py) < Q

(* the 2x1 image whose two pixels are (128,128,128) *)
Scenario2x1 ==
    /\ width = 2
    /\ height = 1
    /\ Len(data0) = 8
    /\ rgb(data0, 0) = <<128, 128, 128>>
    /\ rgb(data0, 4) = <<128, 128, 128>>

(* C6 as stated: pixel (0,0) is equidistant from black and white and becomes
   black; its error (128,128,128) raises pixel (1,0) before that is visited. *)
C6_Original ==
    (Scenario2x1 /\ Len(visits) >= 1) =>
        /\ distance(128 * Q, 128 * Q, 128 * Q, PALETTE[1])
             = distance(128 * Q, 128 * Q, 128 * Q, PALETTE[2])
        /\ quantized[1] = <<0, 0, 0>>
        /\ Len(visits) = 1 => error = <<128, 128, 128>>
        /\ (Len(visits) = 1 /\ pc = "loop") =>
               \A c \in 1..3 : rgb(result, 4)[c] > 128

(* C6 amended: pixel (0,0) is nearer to white and becomes white; its error
   (-127,-127,-127) is added with weight 7/16 to pixel (1,0) before that is
   visited, lowering the colour pixel (1,0) is quantized from, and pixel (1,0)
   becomes black. *)
C6_Amended ==
    (Scenario2x1 /\ Len(visits) >= 1) =>
        /\ quantized[1] = <<255, 255, 255>>
        /\ Len(visits) = 1 => error = <<-127, -127, -127>>
        /\ (Len(visits) = 1 /\ lastWrite.wrote) =>
               /\ lastWrite.nx = 1
               /\ lastWrite.ny = 0
               /\ lastWrite.k = 7
        /\ (Len(visits) = 1 /\ pc = "loop") =>
               \A c \in 1..3 : rgb(result, 4)[c] < 128
        /\ Len(visits) = 2 =>
               /\ \A c \in 1..3 : oldColor[c] < 128
               /\ quantized[2] = <<0, 0, 0>>
        /\ pc = "done" =>
               /\ rgb(returned.data, 0) = <<255, 255, 255>>
               /\ rgb(returned.data, 4) = <<0, 0, 0>>

C6_Witness == Scenario2x1 /\ pc = "done" /\ Len(visits) = 2

(* C7: when the buffer length differs from width * height * 4, the scan never
   starts: no pixel is visited and no sample of the working buffer is written. *)
C7_RejectedBeforeScan ==
    Len(data0) # width * height * 4 =>
        /\ visits = << >>
        /\ (pc # "call" => result = data0)

(* C8: every diffusion write goes to a pixel inside the grid that comes
   strictly later than the current pixel in row-major order; a target outside
   the grid is skipped; a quantized pixel's RGB samples are never written
   again. *)
C8_DiffusionTargets ==
    /\ lastWrite.wrote =>
          /\ inGrid(lastWrite.nx, lastWrite.ny)
          /\ pixelNumber(lastWrite.nx, lastWrite.ny)
               > pixelNumber(lastVisit[1], lastVisit[2])
    /\ (lastWrite.k # 0 /\ ~lastWrite.wrote) => ~inGrid(lastWrite.nx, lastWrite.ny)
    /\ (lastWrite.k # 0 /\ inGrid(lastWrite.nx, lastWrite.ny)) => lastWrite.wrote
    /\ \A i \in 1..Len(visits) :
          rgb(result, 4 * pixelNumber(visits[i][1], visits[i][2])) = quantized[i]

C8_Witness ==
    /\ width >= 2
    /\ ~lastWrite.wrote
    /\ lastWrite.nx = -1
    /\ lastWrite.ny < height
    /\ \E i \in 1..Len(visits) : quantized[i] # rgb(data0, 4 * (i - 1))

(* the first n pixels in row-major order *)
rowMajor(n) == [i \in 1..n |-> << (i - 1) % width, (i - 1) \div width >>]

C9_Order ==
    /\ Len(visits) <= width * height
    /\ visits = rowMajor(Len(visits))
    /\ pc = "done" => Len(visits) = width * height
    /\ (width = 0 \/ height = 0) => visits = << >>
    /\ (width = 1 /\ height = 1) =>
          /\ ~lastWrite.wrote
          /\ applied = <<0, 0, 0>>
          /\ pc = "done" =>
                rgb(returned.data, 0) =
                    findClosestPaletteColor(Q * data0[1], Q * data0[2], Q * data0[3])

(* C9: the scan visits each pixel exactly once, in row-major order, and then
   ends; a 0x0 image has no visit; a 1x1 image has one visit, no diffusion
   write, and the matcher's colour for the input colour as output. *)
C9_ScanAndTerminate == []C9_Order /\ <>(pc = "done")

C9_Witness ==
    /\ pc = "done"
    /\ width = 1
    /\ height = 1
    /\ Len(visits) = 1

(* C10: the caller's samples are never changed; the returned buffer has the
   input's width, height and length, and is the working copy. *)
C10_InputUnchanged ==
    /\ heap["data"] = data0
    /\ pc = "done" =>
          /\ returned.width = width
          /\ returned.height = height
          /\ Len(returned.data) = Len(data0)
          /\ returned.data = heap["result"]

C10_Witness ==
    /\ pc = "done"
    /\ width * height >= 1
    /\ returned.data # data0
    /\ heap["data"] = data0

====
